---- MODULE Spec2Model ----
(***************************************************************************)
(* A model of the LC-3 virtual machine of lc3-vm-rust: main.rs (argument   *)
(* loop, image loading, run), vm/mod.rs (the VM: memory, registers, the    *)
(* fetch/decode/execute loop, the sixteen opcode handlers, the trap        *)
(* routines, the image loader, the memory-mapped keyboard registers) and   *)
(* utils/terminal.rs (canonical/echo mode of the terminal).                *)
(*                                                                         *)
(* Words are 16-bit: every value stored in a register or in memory is in   *)
(* 0..65535 and every arithmetic result is reduced modulo 65536 where the  *)
(* source uses wrapping arithmetic.  Where the source uses the plain `+`   *)
(* or `<<` of Rust, the outcome depends on the build profile               *)
(* (overflow-checks on: panic; off: wrap), which is fixed per behaviour by *)
(* the variable overflow_checks.                                           *)
(***************************************************************************)
EXTENDS Integers, Sequences, FiniteSets, TLC

VARIABLES
    memory,          \* VM.memory: the non-zero words, address |-> word
    registers,       \* VM.registers: [0..9 -> u16]
    running,         \* VM.running
    proc,            \* position of the process in main() / VM::run()
    instr,           \* the local `instr` of VM::run(): the word last fetched
    image,           \* the file named by the argument main() is loading
    load_result,     \* what load_image returned for it
    canon_echo,      \* terminal: ICANON | ECHO set in c_lflag
    output,          \* bytes the last step wrote to standard output
    diag,            \* fixed message the last step printed
    consumed,        \* bytes of standard input the last step consumed
    steps,           \* cycles of the run loop started so far
    last,            \* the cycle completed before: its instruction word and
                     \* the registers its handler started with
    link,            \* the address of the last JSR/JSRR executed, while no
                     \* instruction since has had R7 as destination; else -1
    overflow_checks, \* build profile: arithmetic overflow panics
    se_x,            \* sign_extend: the argument x
    se_k,            \* sign_extend: the argument bit_count
    se_r             \* sign_extend: the results of the calls made so far

vars == <<memory, registers, running, proc, instr, image, load_result,
          canon_echo, output, diag, consumed, steps, last, link, overflow_checks,
          se_x, se_k, se_r>>

vm_vars == <<memory, registers, running, proc, instr, image, load_result,
             canon_echo, output, diag, consumed, steps, last, link>>

se_vars == <<se_x, se_k, se_r>>

---------------------------------------------------------------------------
(* Program constants                                                       *)

MEMORY_SIZE == 65536

PC_START == 12288

WORD == 65536

R_R0 == 0

R_R7 == 7

R_PC == 8

R_COND == 9

FL_POS == 1

FL_ZRO == 2

FL_NEG == 4

MR_KBSR == 65024

MR_KBDDR == 65026

EOF == -1

---------------------------------------------------------------------------
(* Bounds of the model                                                     *)

\* cycles of the run loop that a behaviour follows
MaxSteps == 5

\* words in the payload of a program image
MaxWords == 2

\* words in the payload of an image of the loader's specification
MaxLoadWords == 2

---------------------------------------------------------------------------
(* 16-bit machine arithmetic                                               *)

RECURSIVE BitAnd(_, _)
BitAnd(a, b) ==
    IF a = 0 \/ b = 0 THEN 0
    ELSE (a % 2) * (b % 2) + 2 * BitAnd(a \div 2, b \div 2)

RECURSIVE BitOr(_, _)
BitOr(a, b) ==
    IF a = 0 THEN b
    ELSE IF b = 0 THEN a
    ELSE (IF a % 2 = 1 \/ b % 2 = 1 THEN 1 ELSE 0)
         + 2 * BitOr(a \div 2, b \div 2)

\* x >> n on u16
Shr(x, n) == x \div (2 ^ n)

\* x << n on u16 with n < 16: the bits shifted out are dropped
Shl(x, n) == (x * (2 ^ n)) % WORD

\* !x on u16
BitNot(x) == (WORD - 1) - x

\* u16::wrapping_add
wrapping_add(a, b) == (a + b) % WORD

\* `v as u16` of an i32
as_u16(v) == v % WORD

\* `v as u8` of a u16
as_u8(v) == v % 256

\* print!("{}", b as char) of a u8: the character U+0000..U+00FF is written
\* in UTF-8, one byte below 0x80 and two bytes from 0x80 on
print_char(b) ==
    IF b < 128 THEN <<b>> ELSE <<192 + (b \div 64), 128 + (b % 64)>>

---------------------------------------------------------------------------
(* VM::sign_extend, mod.rs 90-98.  `0xFFFF << bit_count` is a u16 shift:   *)
(* with bit_count >= 16 it panics under overflow checks and otherwise the  *)
(* shift amount is reduced modulo 16.                                      *)

sign_extend_panics(x, bit_count, checks) ==
    /\ BitAnd(Shr(x, bit_count - 1), 1) = 1
    /\ bit_count >= 16
    /\ checks

sign_extend_xor(x, bit_count) ==
    IF BitAnd(Shr(x, bit_count - 1), 1) = 1
    THEN LET m == Shl(65535, bit_count % 16)
         IN  BitOr(x, m) - BitAnd(x, m)
    ELSE x

sign_extend(x, bit_count) ==
    IF BitAnd(Shr(x, bit_count - 1), 1) = 1
    THEN BitOr(x, Shl(65535, bit_count % 16))
    ELSE x

---------------------------------------------------------------------------
(* Memory: [u16; MEMORY_SIZE], zero-filled at construction.  The model     *)
(* keeps the non-zero words only; a word that is not kept is 0.            *)

Mem(m, a) == IF a \in DOMAIN m THEN m[a] ELSE 0

\* self.memory[address] = value
MemSet(m, a, v) ==
    IF v = 0
    THEN [x \in (DOMAIN m) \ {a} |-> m[x]]
    ELSE [x \in (DOMAIN m) \cup {a} |-> IF x = a THEN v ELSE m[x]]

\* VM::mem_write, mod.rs 411-413
\* a write that keeps a word that is already there
mem_write_if_empty(m, address, value) ==
    IF Mem(m, address) # 0 THEN m ELSE MemSet(m, address, value)

mem_write(m, address, value) == MemSet(m, address, value)

\* the bytes an input call took from standard input: none at end of file
taken(c) == IF c = EOF THEN <<>> ELSE <<c>>

\* a mem_read in which reading the data word 0xFE02 clears the status word
mem_read_kbddr_clears(m, address, b, c) ==
    IF address = MR_KBSR
    THEN IF b = EOF
         THEN [mem |-> m, val |-> 0, panic |-> TRUE, used |-> <<>>]
         ELSE LET m1 == IF b # 0
                        THEN MemSet(MemSet(m, MR_KBSR, Shl(1, 15)),
                                    MR_KBDDR, as_u16(c))
                        ELSE MemSet(m, MR_KBSR, 0)
              IN  [mem |-> m1, val |-> Mem(m1, address), panic |-> FALSE,
                   used |-> IF b # 0 THEN <<b>> \o taken(c) ELSE <<b>>]
    ELSE [mem |-> IF address = MR_KBDDR THEN MemSet(m, MR_KBSR, 0) ELSE m,
          val |-> Mem(m, address), panic |-> FALSE, used |-> <<>>]

(* VM::mem_read, mod.rs 415-428.  b is the outcome of reading one byte of  *)
(* standard input (EOF: read_exact fails and unwrap panics), c is what     *)
(* getchar() returns.  The result is the memory after the read, the word   *)
(* read, whether the read panicked and the input bytes it consumed.        *)
mem_read(m, address, b, c) ==
    IF address = MR_KBSR
    THEN IF b = EOF
         THEN [mem |-> m, val |-> 0, panic |-> TRUE, used |-> <<>>]
         ELSE LET m1 == IF b # 0
                        THEN MemSet(MemSet(m, MR_KBSR, Shl(1, 15)),
                                    MR_KBDDR, as_u16(c))
                        ELSE MemSet(m, MR_KBSR, 0)
              IN  [mem |-> m1, val |-> Mem(m1, address), panic |-> FALSE,
                   used |-> IF b # 0 THEN <<b>> \o taken(c) ELSE <<b>>]
    ELSE [mem |-> m, val |-> Mem(m, address), panic |-> FALSE, used |-> <<>>]

---------------------------------------------------------------------------
(* Instruction fields                                                      *)

\* VM::decode, mod.rs 49-51, with the discriminants of OpCode (opcodes.rs)
decode_mod8(i) == Shr(i, 12) % 8

decode(i) == Shr(i, 12)

OP_BR == 0

OP_ADD == 1

OP_LD == 2

OP_ST == 3

OP_JSR == 4

OP_AND == 5

OP_LDR == 6

OP_STR == 7

OP_RTI == 8

OP_NOT == 9

OP_LDI == 10

OP_STI == 11

OP_JMP == 12

OP_RES == 13

OP_LEA == 14

OP_TRAP == 15

\* (instr >> 9) & 0x7
F_DR(i) == BitAnd(Shr(i, 9), 7)

\* (instr >> 6) & 0x7
F_SR1(i) == BitAnd(Shr(i, 6), 7)

\* instr & 0x7
F_SR2(i) == BitAnd(i, 7)

\* (instr >> 5) & 0x1
F_IMM(i) == BitAnd(Shr(i, 5), 1)

\* sign_extend(instr & 0x1F, 5)
F_IMM5(i) == sign_extend(BitAnd(i, 31), 5)

\* sign_extend(instr & 0x3F, 6)
F_OFF6(i) == sign_extend(BitAnd(i, 63), 6)

\* sign_extend(instr & 0x1FF, 9)
F_OFF9(i) == sign_extend(BitAnd(i, 511), 9)

\* sign_extend(instr & 0x7FF, 11)
F_OFF11(i) == sign_extend(BitAnd(i, 2047), 11)

\* instr & 0xFF
F_TRAPVECT(i) == BitAnd(i, 255)

---------------------------------------------------------------------------
(* VM::update_flags, mod.rs 100-109                                        *)

update_flags_sticky(regs, r) ==
    IF regs[r] = 0
    THEN [regs EXCEPT ![R_COND] = BitOr(regs[R_COND], FL_ZRO)]
    ELSE IF Shr(regs[r], 15) = 1
    THEN [regs EXCEPT ![R_COND] = BitOr(regs[R_COND], FL_NEG)]
    ELSE [regs EXCEPT ![R_COND] = BitOr(regs[R_COND], FL_POS)]

update_flags_bit14(regs, r) ==
    IF regs[r] = 0
    THEN [regs EXCEPT ![R_COND] = FL_ZRO]
    ELSE IF Shr(regs[r], 14) = 1
    THEN [regs EXCEPT ![R_COND] = FL_NEG]
    ELSE [regs EXCEPT ![R_COND] = FL_POS]

update_flags(regs, r) ==
    IF regs[r] = 0
    THEN [regs EXCEPT ![R_COND] = FL_ZRO]
    ELSE IF Shr(regs[r], 15) = 1
    THEN [regs EXCEPT ![R_COND] = FL_NEG]
    ELSE [regs EXCEPT ![R_COND] = FL_POS]

---------------------------------------------------------------------------
(* The opcode handlers as functions of the state they read.  Each gives    *)
(* the registers (and the memory, where the handler can change it) after   *)
(* the handler.                                                            *)

\* VM::add, mod.rs 111-136
add_sat(regs, i) ==
    LET dr == F_DR(i)
        a  == regs[F_SR1(i)]
        b  == IF F_IMM(i) # 0 THEN F_IMM5(i) ELSE regs[F_SR2(i)]
        s  == IF a + b >= WORD THEN WORD - 1 ELSE a + b
    IN  update_flags([regs EXCEPT ![dr] = s], dr)

add(regs, i) ==
    LET dr == F_DR(i)
        r1 == IF F_IMM(i) # 0
              THEN [regs EXCEPT ![dr] = wrapping_add(regs[F_SR1(i)], F_IMM5(i))]
              ELSE [regs EXCEPT ![dr] =
                        wrapping_add(regs[F_SR1(i)], regs[F_SR2(i)])]
    IN  update_flags(r1, dr)

\* VM::and, mod.rs 138-156
and_sets_flags(regs, i) ==
    LET dr == F_DR(i)
        r1 == IF F_IMM(i) # 0
              THEN [regs EXCEPT ![dr] = BitAnd(regs[F_SR1(i)], F_IMM5(i))]
              ELSE [regs EXCEPT ![dr] = BitAnd(regs[F_SR1(i)], regs[F_SR2(i)])]
    IN  update_flags(r1, dr)

and(regs, i) ==
    LET dr == F_DR(i)
    IN  IF F_IMM(i) # 0
        THEN [regs EXCEPT ![dr] = BitAnd(regs[F_SR1(i)], F_IMM5(i))]
        ELSE [regs EXCEPT ![dr] = BitAnd(regs[F_SR1(i)], regs[F_SR2(i)])]

\* VM::not, mod.rs 173-182
not(regs, i) ==
    LET dr == F_DR(i)
    IN  update_flags([regs EXCEPT ![dr] = BitNot(regs[F_SR1(i)])], dr)

\* VM::br, mod.rs 184-201
br_zp_swapped(regs, i) ==
    LET n == BitAnd(Shr(i, 11), 1)
        z == BitAnd(Shr(i, 10), 1)
        p == BitAnd(Shr(i, 9), 1)
        cond == regs[R_COND]
    IN  IF \/ (n # 0 /\ cond = FL_NEG)
           \/ (z # 0 /\ cond = FL_POS)
           \/ (p # 0 /\ cond = FL_ZRO)
        THEN [regs EXCEPT ![R_PC] = wrapping_add(regs[R_PC], F_OFF9(i))]
        ELSE regs

br(regs, i) ==
    LET n == BitAnd(Shr(i, 11), 1)
        z == BitAnd(Shr(i, 10), 1)
        p == BitAnd(Shr(i, 9), 1)
        cond == regs[R_COND]
    IN  IF \/ (n # 0 /\ cond = FL_NEG)
           \/ (z # 0 /\ cond = FL_ZRO)
           \/ (p # 0 /\ cond = FL_POS)
        THEN [regs EXCEPT ![R_PC] = wrapping_add(regs[R_PC], F_OFF9(i))]
        ELSE regs

\* VM::jmp, mod.rs 203-211
jmp_dr_field(regs, i) == [regs EXCEPT ![R_PC] = regs[F_DR(i)]]

jmp(regs, i) == [regs EXCEPT ![R_PC] = regs[F_SR1(i)]]

\* VM::jsr, mod.rs 213-233: R7 is written first, the base register is read
\* afterwards
jsr_link_after(regs, i) ==
    LET r1 == IF BitAnd(Shr(i, 11), 1) # 0
              THEN [regs EXCEPT ![R_PC] = wrapping_add(regs[R_PC], F_OFF11(i))]
              ELSE [regs EXCEPT ![R_PC] = regs[F_SR1(i)]]
    IN  [r1 EXCEPT ![R_R7] = r1[R_PC]]

jsr(regs, i) ==
    LET r1 == [regs EXCEPT ![R_R7] = regs[R_PC]]
    IN  IF BitAnd(Shr(i, 11), 1) # 0
        THEN [r1 EXCEPT ![R_PC] = wrapping_add(r1[R_PC], F_OFF11(i))]
        ELSE [r1 EXCEPT ![R_PC] = r1[F_SR1(i)]]

\* VM::ld, mod.rs 235-245: reads self.memory, not mem_read
ld_from_instr_address(regs, m, i) ==
    LET dr == F_DR(i)
        address == wrapping_add(wrapping_add(regs[R_PC], WORD - 1), F_OFF9(i))
    IN  update_flags([regs EXCEPT ![dr] = Mem(m, address)], dr)

ld(regs, m, i) ==
    LET dr == F_DR(i)
        address == wrapping_add(regs[R_PC], F_OFF9(i))
    IN  update_flags([regs EXCEPT ![dr] = Mem(m, address)], dr)

\* VM::ldr, mod.rs 247-258: reads self.memory, not mem_read
ldr(regs, m, i) ==
    LET dr == F_DR(i)
        address == wrapping_add(regs[F_SR1(i)], F_OFF6(i))
    IN  update_flags([regs EXCEPT ![dr] = Mem(m, address)], dr)

\* VM::lea, mod.rs 260-270
\* LEA as an address computation that leaves COND alone
lea_no_flags(regs, i) ==
    [regs EXCEPT ![F_DR(i)] = wrapping_add(regs[R_PC], F_OFF9(i))]

lea(regs, i) ==
    LET dr == F_DR(i)
        address == wrapping_add(regs[R_PC], F_OFF9(i))
    IN  update_flags([regs EXCEPT ![dr] = address], dr)

(* VM::ldi, mod.rs 158-171: two mem_read calls.  in1 and in2 are the       *)
(* inputs <<b, c>> of the first and of the second read.                    *)
ldi(regs, m, i, in1, in2) ==
    LET dr == F_DR(i)
        address == wrapping_add(regs[R_PC], F_OFF9(i))
        rd1 == mem_read(m, address, in1[1], in1[2])
        rd2 == mem_read(rd1.mem, rd1.val, in2[1], in2[2])
    IN  IF rd1.panic
        THEN [regs |-> regs, mem |-> m, panic |-> TRUE, used |-> <<>>]
        ELSE IF rd2.panic
        THEN [regs |-> regs, mem |-> rd1.mem, panic |-> TRUE,
              used |-> rd1.used]
        ELSE [regs |-> update_flags([regs EXCEPT ![dr] = rd2.val], dr),
              mem |-> rd2.mem, panic |-> FALSE,
              used |-> rd1.used \o rd2.used]

\* VM::st, mod.rs 272-281
st(regs, m, i) ==
    MemSet(m, wrapping_add(regs[R_PC], F_OFF9(i)), regs[F_DR(i)])

\* VM::sti, mod.rs 283-293
sti_no_indirection(regs, m, i) ==
    MemSet(m, wrapping_add(regs[R_PC], F_OFF9(i)), regs[F_DR(i)])

sti(regs, m, i) ==
    LET address == wrapping_add(regs[R_PC], F_OFF9(i))
        effective_address == Mem(m, address)
    IN  MemSet(m, effective_address, regs[F_DR(i)])

\* VM::str, mod.rs 295-305
str_no_offset(regs, m, i) == MemSet(m, regs[F_SR1(i)], regs[F_DR(i)])

str(regs, m, i) ==
    MemSet(m, wrapping_add(regs[F_SR1(i)], F_OFF6(i)), regs[F_DR(i)])

---------------------------------------------------------------------------
(* Trap routines                                                           *)

TRAP_GETC == 32

TRAP_OUT == 33

TRAP_PUTS == 34

TRAP_IN == 35

TRAP_PUTSP == 36

TRAP_HALT == 37

\* TryFrom<u16> for TrapCode, trap_codes.rs 16-30: 0 stands for Err
trap_code_swapped(v) ==
    IF v = TRAP_HALT THEN TRAP_PUTSP
    ELSE IF v = TRAP_PUTSP THEN TRAP_HALT
    ELSE IF v \in {TRAP_GETC, TRAP_OUT, TRAP_PUTS, TRAP_IN} THEN v
    ELSE 0

\* an unknown vector is taken for HALT
trap_code_halt_default(v) ==
    IF v \in {TRAP_GETC, TRAP_OUT, TRAP_PUTS, TRAP_IN, TRAP_PUTSP}
    THEN v
    ELSE TRAP_HALT

trap_code(v) ==
    IF v \in {TRAP_GETC, TRAP_OUT, TRAP_PUTS, TRAP_IN, TRAP_PUTSP, TRAP_HALT}
    THEN v
    ELSE 0

\* VM::trap_getc / VM::trap_in, mod.rs 331-335 and 354-360: c is what
\* getchar() returns
trap_getc(regs, c) ==
    update_flags([regs EXCEPT ![R_R0] = as_u16(c)], R_R0)

(* VM::trap_puts, mod.rs 345-352.  `address += 1` is a checked u16         *)
(* addition.  The result is the characters printed and whether the walk    *)
(* panicked.                                                               *)
RECURSIVE puts_walk(_, _, _, _)
puts_walk(m, address, checks, out) ==
    IF Mem(m, address) = 0
    THEN [out |-> out, panic |-> FALSE]
    ELSE LET out1 == out \o print_char(as_u8(Mem(m, address)))
         IN  IF address = WORD - 1
             THEN IF checks
                  THEN [out |-> out1, panic |-> TRUE]
                  ELSE puts_walk(m, 0, checks, out1)
             ELSE puts_walk(m, address + 1, checks, out1)

trap_puts(regs, m, checks) == puts_walk(m, regs[R_R0], checks, <<>>)

(* VM::trap_puts_p, mod.rs 362-378: the low byte is printed always, the    *)
(* high byte when it is not zero; the walk ends at a zero word.            *)
RECURSIVE putsp_walk(_, _, _, _)
putsp_walk(m, address, checks, out) ==
    IF Mem(m, address) = 0
    THEN [out |-> out, panic |-> FALSE]
    ELSE LET c  == Mem(m, address)
             c1 == as_u8(BitAnd(c, 255))
             c2 == as_u8(Shr(c, 8))
             out1 == IF c2 # 0
                     THEN out \o print_char(c1) \o print_char(c2)
                     ELSE out \o print_char(c1)
         IN  IF address = WORD - 1
             THEN IF checks
                  THEN [out |-> out1, panic |-> TRUE]
                  ELSE putsp_walk(m, 0, checks, out1)
             ELSE putsp_walk(m, address + 1, checks, out1)

trap_puts_p(regs, m, checks) == putsp_walk(m, regs[R_R0], checks, <<>>)

\* VM::trap_out, mod.rs 337-343
trap_out(regs) == print_char(as_u8(regs[R_R0]))

---------------------------------------------------------------------------
(* Inputs: the files named on the command line and the characters typed    *)

\* a path that cannot be opened
NoFile == [exists |-> FALSE, bytes |-> <<>>]

\* u16::to_be_bytes
to_be_bytes(w) == <<w \div 256, w % 256>>

RECURSIVE words_bytes(_)
words_bytes(ws) ==
    IF ws = <<>> THEN <<>> ELSE to_be_bytes(Head(ws)) \o words_bytes(Tail(ws))

\* an image file as the tests write it (tests::test_read_image): the origin,
\* the payload words, and trailing bytes
ImageFile(origin, ws, tail) ==
    [exists |-> TRUE, bytes |-> to_be_bytes(origin) \o words_bytes(ws) \o tail]

SeqsUpTo(S, n) == UNION {[1..k -> S] : k \in 0..n}

\* the instruction and data words of the program images
ProgWords ==
    {
      4095,     \* 0x0fff  BRnzp #-1
      1025,     \* 0x0401  BRz #1
      2049,     \* 0x0801  BRn #1
      513,      \* 0x0201  BRp #1
      4673,     \* 0x1241  ADD R1,R1,R1
      4705,     \* 0x1261  ADD R1,R1,#1
      4159,     \* 0x103f  ADD R0,R0,#-1
      4162,     \* 0x1042  ADD R0,R1,R2
      21088,    \* 0x5260  AND R1,R1,#0
      20545,    \* 0x5041  AND R0,R1,R1
      37503,    \* 0x927f  NOT R1,R1
      9215,     \* 0x23ff  LD R1,#-1
      8704,     \* 0x2200  LD R1,#0
      41472,    \* 0xa200  LDI R1,#0
      41983,    \* 0xa3ff  LDI R1,#-1
      25152,    \* 0x6240  LDR R1,R1,#0
      25087,    \* 0x61ff  LDR R0,R7,#-1
      58367,    \* 0xe3ff  LEA R1,#-1
      57344,    \* 0xe000  LEA R0,#0
      12800,    \* 0x3200  ST R1,#0
      45568,    \* 0xb200  STI R1,#0
      29248,    \* 0x7240  STR R1,R1,#0
      49216,    \* 0xc040  JMP R1
      49600,    \* 0xc1c0  RET
      18432,    \* 0x4800  JSR #0
      20479,    \* 0x4fff  JSR #-1
      16448,    \* 0x4040  JSRR R1
      16832,    \* 0x41c0  JSRR R7
      32768,    \* 0x8000  RTI
      35516,    \* 0x8abc  RTI, low bits set
      53248,    \* 0xd000  reserved
      57343,    \* 0xdfff  reserved, low bits set
      61472,    \* 0xf020  TRAP GETC
      61473,    \* 0xf021  TRAP OUT
      61474,    \* 0xf022  TRAP PUTS
      61475,    \* 0xf023  TRAP IN
      61476,    \* 0xf024  TRAP PUTSP
      61477,    \* 0xf025  TRAP HALT
      64037,    \* 0xfa25  TRAP HALT, bits 8..11 set
      61478,    \* 0xf026  TRAP x26: no such routine
      65024,    \* 0xfe00  the address of KBSR; TRAP x00
      12288,    \* 0x3000  the address PC_START; ST R0,#0
      65535     \* 0xffff  all ones; TRAP xFF
    }

\* longer programs: operands loaded from data words, a store read back,
\* a call and its return, a string for the output traps
ExtraPrograms ==
    {
      \* LD R1,#2; LD R2,#2; ADD R0,R1,R2; 0x8000; 0xFFFF
      <<9218, 9730, 4162, 32768, 65535>>,
      \* LD R1,#2; ADD R1,R1,R1; ADD R0,R1,#-16; 0x7FFF
      <<8706, 4673, 4208, 32767>>,
      \* LEA R1,#-1; ST R1,#1; LD R0,#0; 0
      <<58367, 12801, 8192, 0>>,
      \* JSR #1; TRAP HALT; RET
      <<18433, 61477, 49600>>,
      \* LEA R0,#2; TRAP PUTS; TRAP PUTSP; 0x4148; 0x0069
      <<57346, 61474, 61476, 16712, 105>>,
      \* LDI R0,#1; LDI R1,#1; 0xFE00; 0x3002
      <<40961, 41473, 65024, 12290>>,
      \* LD R1,#1; JMP R1; 0xFE00: the next fetch is at KBSR
      <<8705, 49216, 65024>>,
      \* LD R1,#1; LDR R1,R1,#0; 0xFE00: a load at KBSR
      <<8705, 25152, 65024>>,
      \* NOT R1,R1; STR R1,R1,#0; ADD R0,R1,R2; TRAP PUTS: a string that
      \* reaches address 0xFFFF
      <<37503, 29248, 4162, 61474>>,
      \* the same string for TRAP PUTSP
      <<37503, 29248, 4162, 61476>>,
      \* LD R1,#2; STR R1,R2,#0; JMP R2; 0xE1FE: LEA R0,#-2 runs at
      \* address 0
      <<8706, 29312, 49280, 57854>>,
      \* LD R1,#2; ADD R2,R2,#1; AND R0,R1,R1; 0xFFFF: an AND with a
      \* negative result while COND is Positive
      <<8706, 5281, 20545, 65535>>,
      \* LEA R0,#1; TRAP PUTSP; 0x0041; 0x0042: a packed string with a zero
      \* high byte in its first word
      <<57345, 61476, 65, 66>>,
      \* LEA R0,#1; TRAP PUTSP; 0x4100: a word with a zero low byte
      <<57345, 61476, 16640>>,
      \* LEA R0,#1; TRAP PUTS; 0x00E9: a character above 0x7F
      <<57345, 61474, 233>>,
      \* ADD R1,R1,#1; NOT R2,R2; STR R1,R1,#0; LDR R3,R1,#0: a positive
      \* value stored and read back while COND is Negative
      <<4705, 38079, 29248, 26176>>,
      \* NOT R1,R1; ST R2,#1; LD R3,#0; 0x1234: zero stored over a data
      \* word and read back while COND is Negative
      <<37503, 13313, 9728, 4660>>,
      \* JSR #1; TRAP HALT; ADD R1,R1,#1; RET: a call, a body, the return
      <<18433, 61477, 4705, 49600>>,
      \* LEA R1,#2; JSRR R1; TRAP HALT; RET: a call through a register
      <<57858, 16448, 61477, 49600>>,
      \* JSR #0; JSR #0; RET: a call inside a call
      <<18432, 18432, 49600>>,
      \* JSR #0; NOT R7,R7; RET: R7 is overwritten before the return
      <<18432, 40959, 49600>>,
      \* JSR #1; TRAP HALT; TRAP GETC; RET: a trap routine in the body
      <<18433, 61477, 61472, 49600>>,
      \* LDI R0,#1; LDI R1,#1; 0xFE00; 0xFE02: a read of KBSR, then a read
      \* of KBDDR
      <<40961, 41473, 65024, 65026>>,
      \* LD R1,#2; STR R1,R1,#0; LDR R2,R1,#0; 0xFE00: a store to KBSR and
      \* a load of it
      <<8706, 29248, 25664, 65024>>,
      \* LD R1,#2; STR R1,R1,#2; LDR R2,R1,#2; 0xFE00: the same at KBDDR
      <<8706, 29250, 25666, 65024>>,
      \* NOT R1,R1; ST R1,#1; LD R2,#0; 0: a store and a load of one cell
      <<37503, 12801, 9216, 0>>,
      \* NOT R1,R1; STI R1,#0; 0x3000: a store through a pointer
      <<37503, 45568, 12288>>,
      \* NOT R1,R1; STR R1,R1,#0; STR R1,R1,#1; ADD R0,R1,R2; TRAP PUTS:
      \* a string at 0xFFFF that goes on at address 0
      <<37503, 29248, 29249, 4162, 61474>>
    }

\* operand values at the edges of the 16-bit range
OperandWords == {1, 32767, 32768, 65535}

\* programs that load operands from data words and add them:
\* LD R1,#2; LD R2,#2; ADD R0,R1,R2; a; b   and
\* LD R1,#1; ADD R0,R1,#imm5; a   with imm5 in {-16, -1, 15}
OperandPrograms ==
    {<<9218, 9730, 4162, a, b>> : a \in OperandWords, b \in OperandWords}
    \cup {<<8705, w, a>> : w \in {4208, 4223, 4207}, a \in OperandWords}

\* an image that covers the two memory-mapped addresses 0xFE00..0xFE02
MappedImages == {ImageFile(MR_KBSR, <<7, 9, 65>>, <<>>)}

\* the files main() is given in Spec: programs at PC_START, an image over the
\* mapped addresses, a file that is too short for an origin, and a path that
\* cannot be opened
ProgImages ==
    {ImageFile(PC_START, ws, <<>>) :
        ws \in SeqsUpTo(ProgWords, MaxWords) \cup ExtraPrograms
                  \cup OperandPrograms}
    \cup {NoFile, [exists |-> TRUE, bytes |-> <<48>>]}
    \cup MappedImages

\* the data words of the images of the loader's specification
LoadWords == {0, 1, 13330}

\* their origins: PC_START, the address after it, the last address
LoadOrigins == {PC_START, PC_START + 1, MEMORY_SIZE - 1}

\* the files of the loader's specification: images with and without a
\* trailing odd byte, an empty file, a one-byte file, no file
LoadImages ==
    {ImageFile(o, ws, t) :
        o \in LoadOrigins, ws \in SeqsUpTo(LoadWords, MaxLoadWords),
        t \in {<<>>, <<171>>}}
    \cup {NoFile, [exists |-> TRUE, bytes |-> <<>>],
          [exists |-> TRUE, bytes |-> <<48>>]}

\* the arguments of the calls of sign_extend: every u16, and the bit counts
\* of the immediates (5, 6, 9, 11) and of a whole word
SignExtendInputs == 0..(WORD - 1)

BitCounts == {5, 6, 9, 11, 16}

\* outcomes of reading one byte of standard input
StdinBytes == {EOF, 0, 65}

\* values getchar() returns
GetcharValues == {EOF, 0, 65}

\* the inputs a mem_read of `address` consumes
ReadInputs(address) ==
    IF address = MR_KBSR THEN StdinBytes \X GetcharValues ELSE {<<0, 0>>}

---------------------------------------------------------------------------
(* The image loader                                                        *)

\* u16::from_be_bytes
from_le_bytes(b0, b1) == b1 * 256 + b0

from_be_bytes(b0, b1) == b0 * 256 + b1

Min(a, b) == IF a <= b THEN a ELSE b

(* the for loop of VM::read_image_file, mod.rs 398-402: words i..n-1 of    *)
(* buffer are written at origin + i                                        *)
RECURSIVE copy_words(_, _, _, _, _)
copy_words(m, origin, buffer, i, n) ==
    IF i >= n THEN m
    ELSE copy_words(
            mem_write(m, origin + i,
                      from_be_bytes(buffer[2 * i + 1], buffer[2 * i + 2])),
            origin, buffer, i + 1, n)

(* VM::read_image and VM::read_image_file, mod.rs 386-409.  File::open     *)
(* fails for a path that cannot be opened and read_exact fails for a file  *)
(* of fewer than two bytes.  One read call fills at most max_read * 2      *)
(* bytes of buffer; for a regular file it returns all the bytes there are, *)
(* up to that size.                                                        *)
read_image(m, f) ==
    IF ~f.exists \/ Len(f.bytes) < 2
    THEN [ok |-> FALSE, mem |-> m]
    ELSE LET origin == from_be_bytes(f.bytes[1], f.bytes[2])
             max_read == MEMORY_SIZE - origin
             bytes_read == Min(Len(f.bytes) - 2, max_read * 2)
             buffer == SubSeq(f.bytes, 3, 2 + bytes_read)
         IN  [ok |-> TRUE,
              mem |-> copy_words(m, origin, buffer, 0, bytes_read \div 2)]

---------------------------------------------------------------------------
(* main(), main.rs 9-32                                                    *)

\* no image path on the command line: usage, exit status 2
NoArgs ==
    /\ proc = "start"
    /\ proc' = "exit2"
    /\ diag' = "lc3 [image-file1] ..."
    /\ output' = <<>>
    /\ consumed' = <<>>
    /\ UNCHANGED <<memory, registers, running, instr, image, load_result,
                   canon_echo, steps, last, link, overflow_checks, se_vars>>

\* the failure of a load is reported and the loop over the arguments goes on
LoadImage_continue(f) ==
    /\ proc \in {"start", "loading"}
    /\ image' = f
    /\ LET r == read_image(memory, f)
       IN  IF r.ok
           THEN /\ memory' = r.mem
                /\ load_result' = "ok"
                /\ proc' = "loading"
                /\ diag' = ""
           ELSE /\ memory' = memory
                /\ load_result' = "err"
                /\ proc' = "loading"
                /\ diag' = "failed to load image"
    /\ output' = <<>>
    /\ consumed' = <<>>
    /\ UNCHANGED <<registers, running, instr, canon_echo, steps, last, link,
                   overflow_checks, se_vars>>

\* one iteration of the for loop over the arguments: vm.load_image(arg)
LoadImage(f) ==
    /\ proc \in {"start", "loading"}
    /\ image' = f
    /\ LET r == read_image(memory, f)
       IN  IF r.ok
           THEN /\ memory' = r.mem
                /\ load_result' = "ok"
                /\ proc' = "loading"
                /\ diag' = ""
           ELSE /\ memory' = memory
                /\ load_result' = "err"
                /\ proc' = "exit1"
                /\ diag' = "failed to load image"
    /\ output' = <<>>
    /\ consumed' = <<>>
    /\ UNCHANGED <<registers, running, instr, canon_echo, steps, last, link,
                   overflow_checks, se_vars>>

\* the for loop is over: vm.run() is entered
StartRun ==
    /\ proc = "loading"
    /\ proc' = "fetch"
    /\ image' = NoFile
    /\ load_result' = "none"
    /\ diag' = ""
    /\ output' = <<>>
    /\ consumed' = <<>>
    /\ UNCHANGED <<memory, registers, running, instr, canon_echo, steps,
                   last, link, overflow_checks, se_vars>>

\* vm.run() has returned: restore_terminal_settings(), exit status 0
ExitLoop ==
    /\ proc = "fetch"
    /\ ~running
    /\ proc' = "done"
    /\ canon_echo' = TRUE
    /\ diag' = "Shutting Down VM..."
    /\ output' = <<>>
    /\ consumed' = <<>>
    /\ UNCHANGED <<memory, registers, running, instr, image, load_result,
                   steps, last, link, overflow_checks, se_vars>>

---------------------------------------------------------------------------
(* VM::run, mod.rs 77-84: fetch, increment PC, decode                      *)

\* the loop of VM::run as a do-while: the cycle runs without the test of
\* self.running
Fetch_do_while ==
    /\ proc = "fetch"
    /\ steps < MaxSteps
    /\ steps' = steps + 1
    /\ \E in \in ReadInputs(registers[R_PC]) :
         LET rd == mem_read(memory, registers[R_PC], in[1], in[2])
         IN  IF rd.panic
             THEN /\ proc' = "panic"
                  /\ consumed' = rd.used
                  /\ UNCHANGED <<memory, registers, instr>>
             ELSE /\ memory' = rd.mem
                  /\ instr' = rd.val
                  /\ consumed' = rd.used
                  /\ IF registers[R_PC] = WORD - 1 /\ overflow_checks
                     THEN /\ proc' = "panic"
                          /\ UNCHANGED registers
                     ELSE /\ proc' = "exec"
                          /\ registers' =
                               [registers EXCEPT
                                   ![R_PC] = (registers[R_PC] + 1) % WORD]
    /\ diag' = ""
    /\ output' = <<>>
    /\ UNCHANGED <<running, image, load_result, canon_echo, last, link,
                   overflow_checks, se_vars>>

Fetch ==
    /\ proc = "fetch"
    /\ running
    /\ steps < MaxSteps
    /\ steps' = steps + 1
    /\ \E in \in ReadInputs(registers[R_PC]) :
         LET rd == mem_read(memory, registers[R_PC], in[1], in[2])
         IN  IF rd.panic
             THEN /\ proc' = "panic"
                  /\ consumed' = rd.used
                  /\ UNCHANGED <<memory, registers, instr>>
             ELSE /\ memory' = rd.mem
                  /\ instr' = rd.val
                  /\ consumed' = rd.used
                  /\ IF registers[R_PC] = WORD - 1 /\ overflow_checks
                     THEN /\ proc' = "panic"
                          /\ UNCHANGED registers
                     ELSE /\ proc' = "exec"
                          /\ registers' =
                               [registers EXCEPT
                                   ![R_PC] = (registers[R_PC] + 1) % WORD]
    /\ diag' = ""
    /\ output' = <<>>
    /\ UNCHANGED <<running, image, load_result, canon_echo, last, link,
                   overflow_checks, se_vars>>

---------------------------------------------------------------------------
(* VM::execute, mod.rs 57-75: one action for each arm of the match, and    *)
(* for OpCode::Trap one for each arm of the match of VM::trap              *)

Executes(op) == proc = "exec" /\ decode(instr) = op

\* the handler returns to the loop of VM::run, having consumed the input
\* bytes inp
ReturnsIn(regs, mem, run, term, out, msg, inp) ==
    /\ registers' = regs
    /\ memory' = mem
    /\ running' = run
    /\ canon_echo' = term
    /\ output' = out
    /\ diag' = msg
    /\ consumed' = inp
    /\ proc' = "fetch"
    /\ last' = [instr |-> instr, regs |-> registers]
    /\ link' = IF decode(instr) = OP_JSR
               THEN wrapping_add(registers[R_PC], WORD - 1)
               ELSE IF /\ decode(instr) \in {OP_ADD, OP_AND, OP_NOT, OP_LD,
                                             OP_LDI, OP_LDR, OP_LEA}
                       /\ F_DR(instr) = R_R7
               THEN -1
               ELSE link
    /\ UNCHANGED <<instr, image, load_result, steps, overflow_checks, se_vars>>

\* the handler returns and has read no input
Returns(regs, mem, run, term, out, msg) ==
    ReturnsIn(regs, mem, run, term, out, msg, <<>>)

\* the handler panics, having consumed the input bytes inp: the process
\* ends where it is
PanicsIn(mem, term, out, inp) ==
    /\ memory' = mem
    /\ canon_echo' = term
    /\ output' = out
    /\ diag' = ""
    /\ consumed' = inp
    /\ proc' = "panic"
    /\ UNCHANGED <<registers, running, instr, image, load_result, steps,
                   last, link, overflow_checks, se_vars>>

\* the handler panics and has read no input
Panics(mem, term, out) == PanicsIn(mem, term, out, <<>>)

\* OpCode::Add => self.add(instr)
ExecAdd ==
    /\ Executes(OP_ADD)
    /\ Returns(add(registers, instr), memory, running, canon_echo, <<>>, "")

\* OpCode::And => self.and(instr)
ExecAnd ==
    /\ Executes(OP_AND)
    /\ Returns(and(registers, instr), memory, running, canon_echo, <<>>, "")

\* OpCode::Not => self.not(instr)
ExecNot ==
    /\ Executes(OP_NOT)
    /\ Returns(not(registers, instr), memory, running, canon_echo, <<>>, "")

\* OpCode::Br => self.br(instr)
ExecBr ==
    /\ Executes(OP_BR)
    /\ Returns(br(registers, instr), memory, running, canon_echo, <<>>, "")

\* OpCode::Jmp => self.jmp(instr)
ExecJmp ==
    /\ Executes(OP_JMP)
    /\ Returns(jmp(registers, instr), memory, running, canon_echo, <<>>, "")

\* OpCode::Jsr => self.jsr(instr)
ExecJsr ==
    /\ Executes(OP_JSR)
    /\ Returns(jsr(registers, instr), memory, running, canon_echo, <<>>, "")

\* OpCode::Ld => self.ld(instr)
ExecLd ==
    /\ Executes(OP_LD)
    /\ Returns(ld(registers, memory, instr), memory, running, canon_echo, <<>>, "")

\* OpCode::Ldr => self.ldr(instr)
ExecLdr ==
    /\ Executes(OP_LDR)
    /\ Returns(ldr(registers, memory, instr), memory, running, canon_echo, <<>>, "")

\* OpCode::Lea => self.lea(instr)
ExecLea ==
    /\ Executes(OP_LEA)
    /\ Returns(lea(registers, instr), memory, running, canon_echo, <<>>, "")

\* OpCode::St => self.st(instr)
ExecSt ==
    /\ Executes(OP_ST)
    /\ Returns(registers, st(registers, memory, instr), running, canon_echo, <<>>, "")

\* OpCode::Sti => self.sti(instr)
ExecSti ==
    /\ Executes(OP_STI)
    /\ Returns(registers, sti(registers, memory, instr), running, canon_echo, <<>>, "")

\* OpCode::Str => self.str(instr)
ExecStr ==
    /\ Executes(OP_STR)
    /\ Returns(registers, str(registers, memory, instr), running, canon_echo, <<>>, "")

\* OpCode::Ldi => self.ldi(instr)
ExecLdi ==
    /\ Executes(OP_LDI)
    /\ LET address == wrapping_add(registers[R_PC], F_OFF9(instr))
       IN  \E in1 \in ReadInputs(address) :
             \E in2 \in ReadInputs(
                            mem_read(memory, address, in1[1], in1[2]).val) :
               LET r == ldi(registers, memory, instr, in1, in2)
               IN  IF r.panic
                   THEN PanicsIn(r.mem, canon_echo, <<>>, r.used)
                   ELSE ReturnsIn(r.regs, r.mem, running, canon_echo, <<>>,
                                  "", r.used)

\* OpCode::Rti | OpCode::Res => self.abort(), mod.rs 325-329
ExecAbort ==
    /\ Executes(OP_RTI) \/ Executes(OP_RES)
    /\ Returns(registers, memory, FALSE, canon_echo, <<>>, "Bad Opcode!")

(* VM::trap, mod.rs 307-323: turn_off_canonical_and_echo_modes(), the      *)
(* routine of the trap vector, restore_terminal_settings().  The unwrap of *)
(* an unknown trap vector panics after the terminal has left canonical     *)
(* mode.  The terminal calls themselves are taken to succeed (standard     *)
(* input is a terminal).                                                   *)
Traps(code) ==
    /\ Executes(OP_TRAP)
    /\ trap_code(F_TRAPVECT(instr)) = code

TrapGetc ==
    /\ Traps(TRAP_GETC)
    /\ \E c \in GetcharValues :
         ReturnsIn(trap_getc(registers, c), memory, running, TRUE, <<>>, "",
                   taken(c))

TrapIn ==
    /\ Traps(TRAP_IN)
    /\ \E c \in GetcharValues :
         ReturnsIn(trap_getc(registers, c), memory, running, TRUE, <<>>,
                   "Enter a character: ", taken(c))

TrapOut ==
    /\ Traps(TRAP_OUT)
    /\ Returns(registers, memory, running, TRUE, trap_out(registers), "")

TrapPuts ==
    /\ Traps(TRAP_PUTS)
    /\ LET r == trap_puts(registers, memory, overflow_checks)
       IN  IF r.panic
           THEN Panics(memory, FALSE, r.out)
           ELSE Returns(registers, memory, running, TRUE, r.out, "")

TrapPutsp ==
    /\ Traps(TRAP_PUTSP)
    /\ LET r == trap_puts_p(registers, memory, overflow_checks)
       IN  IF r.panic
           THEN Panics(memory, FALSE, r.out)
           ELSE Returns(registers, memory, running, TRUE, r.out, "")

\* VM::trap_halt, mod.rs 380-384
TrapHalt ==
    /\ Traps(TRAP_HALT)
    /\ Returns(registers, memory, FALSE, TRUE, <<>>, "Halting the VM...")

\* trap_vect.try_into().unwrap() on a vector that names no routine
TrapUnknown ==
    /\ Traps(0)
    /\ Panics(memory, FALSE, <<>>)

Execute ==
    \/ ExecAdd \/ ExecAnd \/ ExecNot \/ ExecBr \/ ExecJmp \/ ExecJsr
    \/ ExecLd \/ ExecLdi \/ ExecLdr \/ ExecLea \/ ExecSt \/ ExecSti
    \/ ExecStr \/ ExecAbort
    \/ TrapGetc \/ TrapIn \/ TrapOut \/ TrapPuts \/ TrapPutsp \/ TrapHalt
    \/ TrapUnknown

---------------------------------------------------------------------------
(* The process: VM::new(), main(), VM::run()                               *)

\* VM::new, mod.rs 36-47
new_registers ==
    [r \in 0..9 |-> IF r = R_COND THEN FL_ZRO
                    ELSE IF r = R_PC THEN PC_START ELSE 0]

InitVM ==
    /\ memory = <<>>
    /\ registers = new_registers
    /\ running = TRUE
    /\ proc = "start"
    /\ instr = 0
    /\ image = NoFile
    /\ load_result = "none"
    /\ canon_echo = TRUE
    /\ output = <<>>
    /\ diag = ""
    /\ consumed = <<>>
    /\ steps = 0
    /\ last = [instr |-> 0, regs |-> new_registers]
    /\ link = -1

InitSE ==
    /\ se_x = 0
    /\ se_k = 0
    /\ se_r = <<>>

Init ==
    /\ InitVM
    /\ InitSE
    /\ overflow_checks \in BOOLEAN

\* Spec follows the command lines that name no image or one image
Next ==
    \/ NoArgs
    \/ (proc = "start" /\ \E f \in ProgImages : LoadImage(f))
    \/ StartRun
    \/ Fetch
    \/ Execute
    \/ ExitLoop

Spec == Init /\ [][Next]_vars

---------------------------------------------------------------------------
(* The loader alone: command lines of any length over LoadImages           *)

NextLoad == \E f \in LoadImages : LoadImage(f)

SpecLoad == Init /\ [][NextLoad]_vars

---------------------------------------------------------------------------
(* main() on command lines of any length: every argument is loaded, then   *)
(* the machine runs                                                        *)

\* the files of these command lines: one-word programs at PC_START, one
\* data word behind them, a file too short for an origin, a path that
\* cannot be opened
MainImages ==
    {ImageFile(PC_START, <<w>>, <<>>) : w \in ProgWords}
    \cup {ImageFile(PC_START + 1, <<w>>, <<>>) : w \in {MR_KBSR, PC_START}}
    \cup {NoFile, [exists |-> TRUE, bytes |-> <<48>>]}

NextMain ==
    \/ NoArgs
    \/ \E f \in MainImages : LoadImage(f)
    \/ StartRun
    \/ Fetch
    \/ Execute
    \/ ExitLoop

SpecMain == Init /\ [][NextMain]_vars

---------------------------------------------------------------------------
(* sign_extend alone: the function is called on an argument and then on    *)
(* its own result.  A call that panics ends the calls.                     *)

\* the last call made: its result is the argument of the next call
se_last ==
    IF se_r = <<>> THEN [panic |-> FALSE, val |-> se_x] ELSE se_r[Len(se_r)]

SignExtendCall ==
    /\ Len(se_r) < 2
    /\ ~se_last.panic
    /\ se_r' = Append(se_r,
                 IF sign_extend_panics(se_last.val, se_k, overflow_checks)
                 THEN [panic |-> TRUE, val |-> se_last.val]
                 ELSE [panic |-> FALSE, val |-> sign_extend(se_last.val, se_k)])
    /\ UNCHANGED <<vm_vars, overflow_checks, se_x, se_k>>

InitSignExtend ==
    /\ InitVM
    /\ overflow_checks \in BOOLEAN
    /\ se_x \in SignExtendInputs
    /\ se_k \in BitCounts
    /\ se_r = <<>>

SpecSignExtend == InitSignExtend /\ [][SignExtendCall]_vars

---------------------------------------------------------------------------
(* Properties                                                              *)

\* a handler has returned to the loop of VM::run: instr is the instruction
\* it executed
Returned == proc = "fetch" /\ steps > 0

\* the opcode and the register fields of the instruction word, as numbers
OpcodeOf(i) == i \div 4096

DrOf(i) == (i \div 512) % 8

Sr1Of(i) == (i \div 64) % 8

Sr2Of(i) == i % 8

(* C1: in every state reached from VM::new() by image loads and executed   *)
(* instructions, COND holds exactly one of 1 (Positive), 2 (Zero),         *)
(* 4 (Negative).                                                           *)
C1_CondOneFlag == registers[R_COND] \in {1, 2, 4}

\* two instructions have run and the flag-setting one left Negative
C1_Witness ==
    /\ Returned
    /\ steps >= 2
    /\ registers[R_COND] = 4

\* the flag that belongs to a value: Zero for 0, Negative for bit 15 set,
\* Positive otherwise
FlagOfValue(v) == IF v = 0 THEN 2 ELSE IF v >= 32768 THEN 4 ELSE 1

\* the destination register of a flag-setting instruction
IsFlagSetting(i) ==
    \/ OpcodeOf(i) \in {1, 9, 2, 10, 6, 14}
    \/ (OpcodeOf(i) = 15 /\ i % 256 \in {32, 35})

DestOf(i) == IF OpcodeOf(i) = 15 THEN 0 ELSE DrOf(i)

(* C2: after each flag-setting handler (ADD, NOT, LD, LDI, LDR, LEA, and   *)
(* the traps GETC and IN for R0) COND is the flag of the final value of    *)
(* the destination register, whatever COND was before.                     *)
C2_FlagsFromResult ==
    (Returned /\ IsFlagSetting(instr))
        => registers[R_COND] = FlagOfValue(registers[DestOf(instr)])

\* an LDI has loaded a word with bit 15 set while COND was Zero before
C2_Witness ==
    /\ Returned
    /\ steps = 1
    /\ OpcodeOf(instr) = 10
    /\ registers[DrOf(instr)] >= 32768
    /\ registers[R_COND] = 4

\* the 5-bit immediate of the instruction word as a signed number
Signed5(i) == IF i % 32 >= 16 THEN (i % 32) - 32 ELSE i % 32

(* C3: register-mode ADD sets DR to (SR1 + SR2) mod 65536 and              *)
(* immediate-mode ADD sets DR to (SR1 + the signed imm5) mod 65536, also   *)
(* when DR, SR1 and SR2 are one register; the handler always returns.      *)
C3_AddWraps ==
    [][(proc = "exec" /\ OpcodeOf(instr) = 1)
        => /\ proc' = "fetch"
           /\ registers'[DrOf(instr)] =
                IF (instr \div 32) % 2 = 1
                THEN (registers[Sr1Of(instr)] + Signed5(instr)) % 65536
                ELSE (registers[Sr1Of(instr)] + registers[Sr2Of(instr)])
                        % 65536]_vars

\* ADD R1,R1,R1 has added 0xFFFF to itself: the sum overflowed to 0xFFFE
C3_Witness ==
    /\ Returned
    /\ instr = 4673
    /\ steps = 2
    /\ registers[1] = 65534

(* C4: for the bit counts 5, 6, 9 and 11 and every 16-bit x,               *)
(* sign_extend(sign_extend(x, k), k) = sign_extend(x, k).                  *)
C4_SignExtendIdempotent ==
    (se_k \in {5, 6, 9, 11} /\ Len(se_r) = 2)
        => /\ ~se_r[1].panic
           /\ ~se_r[2].panic
           /\ se_r[2].val = se_r[1].val

\* the first call extended the sign of a 9-bit value, the second was made
C4_Witness ==
    /\ se_k = 9
    /\ Len(se_r) = 2
    /\ se_x = 256
    /\ se_r[1].val = 65280

(* C5: sign_extend(x, 16) = x for every 16-bit x, also when bit 15 of x is *)
(* set, and the call completes without an arithmetic error.                *)
C5_SignExtend16Identity ==
    (se_k = 16 /\ Len(se_r) >= 1)
        => /\ ~se_r[1].panic
           /\ se_r[1].val = se_x

(* C6: LDI sets DR to Memory[Memory[PC + sign_extend(offset9, 9)]], and    *)
(* that is the word an LD of the pointer cell followed by a load at the    *)
(* address just loaded gives: both loads of the chain read the stored      *)
(* words, as VM::ld and VM::ldr do.                                        *)
C6_LdiIsChainedLd ==
    [][(proc = "exec" /\ OpcodeOf(instr) = 10 /\ proc' = "fetch")
        => registers'[DrOf(instr)] =
             Mem(memory,
                 Mem(memory,
                     wrapping_add(registers[R_PC], F_OFF9(instr))))]_vars

\* what holds of VM::ldi: when neither address read is KBSR, DR is the
\* stored word at the stored pointer and memory is as it was
C6_LdiPlainMemory ==
    [][(/\ proc = "exec"
        /\ OpcodeOf(instr) = 10
        /\ wrapping_add(registers[R_PC], F_OFF9(instr)) # MR_KBSR
        /\ Mem(memory, wrapping_add(registers[R_PC], F_OFF9(instr)))
              # MR_KBSR)
        => /\ proc' = "fetch"
           /\ memory' = memory
           /\ registers'[DrOf(instr)] =
                Mem(memory,
                    Mem(memory,
                        wrapping_add(registers[R_PC], F_OFF9(instr))))]_vars

(* C7: JSR (bit 11 = 1) and JSRR (bit 11 = 0) both set R7 to the PC the    *)
(* handler received, the address of the call instruction plus one, for     *)
(* every offset and every base register.                                   *)
C7_JsrLinksR7 ==
    [][(proc = "exec" /\ OpcodeOf(instr) = 4)
        => /\ proc' = "fetch"
           /\ registers'[7] = registers[R_PC]]_vars

\* JSRR R7 fetched at PC_START has returned: R7 is PC_START + 1
C7_Witness ==
    /\ Returned
    /\ instr = 16832
    /\ steps = 1
    /\ registers[7] = 12289

(* C8: an instruction with opcode 8 (RTI) or 13 (reserved) sets running to *)
(* false and changes no general-purpose register, not COND and no memory   *)
(* word, whatever its low 12 bits are.                                     *)
C8_AbortFrame ==
    [][(proc = "exec" /\ OpcodeOf(instr) \in {8, 13})
        => /\ proc' = "fetch"
           /\ running' = FALSE
           /\ \A r \in (0..7) \cup {R_COND} : registers'[r] = registers[r]
           /\ memory' = memory]_vars

\* the reserved opcode with all its low bits set has stopped the machine
C8_Witness ==
    /\ Returned
    /\ instr = 57343
    /\ ~running

(* C9: TRAP with vector 0x25 (HALT) sets running to false and leaves every *)
(* register (R0..R7, the PC set by the fetch, COND) and every memory word  *)
(* unchanged.                                                              *)
C9_HaltFrame ==
    [][(proc = "exec" /\ OpcodeOf(instr) = 15 /\ instr % 256 = 37)
        => /\ proc' = "fetch"
           /\ running' = FALSE
           /\ registers' = registers
           /\ memory' = memory]_vars

\* HALT has stopped a machine whose R7 a call had set
C9_Witness ==
    /\ Returned
    /\ instr = 61477
    /\ ~running
    /\ registers[7] # 0

\* the image file read as the format says: origin, payload words
OriginOf(f) == f.bytes[1] * 256 + f.bytes[2]

PayloadWords(f) == (Len(f.bytes) - 2) \div 2

PayloadWord(f, i) == f.bytes[3 + 2 * i] * 256 + f.bytes[4 + 2 * i]

(* C10: loading an image of origin o and n payload bytes returns success   *)
(* and, for each i in 0..floor(n/2)-1, leaves the big-endian word of the   *)
(* payload bytes 2i and 2i+1 in Memory[o+i], for every such word of        *)
(* memory; a trailing odd byte is ignored and every other word is as it    *)
(* was.                                                                    *)
C10_LoadWritesPayload ==
    [][(/\ proc \in {"start", "loading"}
        /\ proc' \in {"loading", "exit1"}
        /\ image'.exists
        /\ Len(image'.bytes) >= 2)
        => /\ load_result' = "ok"
           /\ proc' = "loading"
           /\ \A a \in (DOMAIN memory) \cup (DOMAIN memory')
                       \cup {OriginOf(image') + i :
                                i \in 0..(PayloadWords(image') - 1)} :
                a < 65536 =>
                  Mem(memory', a) =
                    IF a - OriginOf(image') \in 0..(PayloadWords(image') - 1)
                    THEN PayloadWord(image', a - OriginOf(image'))
                    ELSE Mem(memory, a)]_vars

\* an image of two words and a trailing byte is loaded over other words
C10_Witness ==
    /\ proc = "loading"
    /\ load_result = "ok"
    /\ image = ImageFile(PC_START, <<13330, 1>>, <<171>>)
    /\ Mem(memory, PC_START) = 13330
    /\ Mem(memory, PC_START + 1) = 1
    /\ Mem(memory, PC_START + 2) = 13330

(* C11: loading an image whose payload would run past the end of the       *)
(* address space (origin + word count > 65536) returns an error and leaves *)
(* memory as it was before the load; it is never accepted as a successful  *)
(* load.                                                                   *)
C11_LoadOverflowRejected ==
    [][(/\ proc \in {"start", "loading"}
        /\ proc' \in {"loading", "exit1"}
        /\ image'.exists
        /\ Len(image'.bytes) >= 2
        /\ OriginOf(image') + PayloadWords(image') > 65536)
        => /\ load_result' = "err"
           /\ proc' = "exit1"
           /\ memory' = memory]_vars

(* C12: the loop starts with running true, and once running is false no   *)
(* further instruction is fetched or executed, no register and no memory   *)
(* word changes, and running never becomes true again.                     *)
C12_HaltedIsTerminal ==
    [][/\ (steps = 0 => running)
       /\ (~running =>
             /\ running' = FALSE
             /\ registers' = registers
             /\ memory' = memory
             /\ instr' = instr
             /\ steps' = steps
             /\ proc' # "exec")]_vars

\* the machine halted after two instructions and the loop was left
C12_Witness ==
    /\ proc = "done"
    /\ ~running
    /\ steps = 2

\* the instruction words that stop the machine: TRAP with vector 0x25, and
\* the opcodes 8 (RTI) and 13 (reserved)
IsHalting(i) ==
    \/ OpcodeOf(i) \in {8, 13}
    \/ (OpcodeOf(i) = 15 /\ i % 256 = 37)

(* C13: running changes from true to false only in the execution of TRAP   *)
(* HALT or of an instruction of opcode 8 or 13; the execution of every     *)
(* other instruction leaves running true.                                  *)
C13_OnlyHaltStops ==
    [][/\ ((running /\ ~running') => (proc = "exec" /\ IsHalting(instr)))
       /\ ((proc = "exec" /\ ~IsHalting(instr)) => running')]_vars

\* an instruction left the machine running and the RTI after it stopped it
C13_Witness ==
    /\ Returned
    /\ steps = 2
    /\ instr = 35516
    /\ ~running

(* C14: no instruction word makes the machine fail abnormally: whatever    *)
(* 16-bit word was fetched (any of the sixteen opcodes, TRAP with any      *)
(* 8-bit vector), its execution returns to the loop, with the machine      *)
(* running or halted by the controlled halt; it does not panic.            *)
C14_NoAbnormalEnd ==
    [][proc = "exec" => proc' = "fetch"]_vars

\* the 9-bit and 11-bit offsets of the instruction word as signed numbers
Signed9(i) == IF i % 512 >= 256 THEN (i % 512) - 512 ELSE i % 512

Signed11(i) == IF i % 2048 >= 1024 THEN (i % 2048) - 2048 ELSE i % 2048

\* BR is taken: a condition bit of the word (n: 11, z: 10, p: 9) is set and
\* COND is the flag it names
BrTaken(i, cond) ==
    \/ ((i \div 2048) % 2 = 1 /\ cond = 4)
    \/ ((i \div 1024) % 2 = 1 /\ cond = 2)
    \/ ((i \div 512) % 2 = 1 /\ cond = 1)

(* C15: in every cycle the word at PC is fetched, then PC becomes PC + 1,  *)
(* then the handler runs: the handler of the instruction at address A      *)
(* starts with PC = A + 1; BR, JSR, LD, LDI, LEA, ST and STI use           *)
(* A + 1 + the sign-extended offset as their target, and an instruction    *)
(* that is not a control transfer returns with PC = A + 1.                 *)
C15_FetchIncrementExecute ==
    [][/\ ((proc = "fetch" /\ proc' = "exec") =>
             /\ instr' = Mem(memory', registers[R_PC])
             /\ registers'[R_PC] = (registers[R_PC] + 1) % 65536
             /\ \A r \in (0..7) \cup {R_COND} : registers'[r] = registers[r])
       /\ (proc = "exec" =>
             instr = Mem(memory, (registers[R_PC] + 65535) % 65536))
       /\ ((proc = "exec" /\ proc' = "fetch") =>
             LET pc == registers[R_PC]
                 t9 == (pc + Signed9(instr)) % 65536
                 op == OpcodeOf(instr)
                 dr == DrOf(instr)
             IN  /\ (op = 0) =>
                       registers'[R_PC] =
                         IF BrTaken(instr, registers[R_COND]) THEN t9 ELSE pc
                 /\ (op = 4 /\ (instr \div 2048) % 2 = 1) =>
                       registers'[R_PC] = (pc + Signed11(instr)) % 65536
                 /\ (op = 2) => registers'[dr] = Mem(memory, t9)
                 /\ (op = 10 /\ t9 # MR_KBSR /\ Mem(memory, t9) # MR_KBSR) =>
                       registers'[dr] = Mem(memory, Mem(memory, t9))
                 /\ (op = 14) => registers'[dr] = t9
                 /\ (op = 3) => Mem(memory', t9) = registers[dr]
                 /\ (op = 11) =>
                       Mem(memory', Mem(memory, t9)) = registers[dr]
                 /\ (op \notin {0, 4, 12}) => registers'[R_PC] = pc)]_vars

\* LD R1,#-1 fetched at PC_START has loaded its own word: the target is
\* PC_START + 1 - 1
C15_Witness ==
    /\ Returned
    /\ steps = 1
    /\ instr = 9215
    /\ registers[1] = 9215
    /\ registers[R_PC] = 12289

\* the 6-bit offset of the instruction word as a signed number
Signed6(i) == IF i % 64 >= 32 THEN (i % 64) - 64 ELSE i % 64

(* C16: every address computation wraps modulo 65536 and none raises an    *)
(* overflow error: the increment of PC after a fetch at 0xFFFF gives 0,    *)
(* the string walks of PUTS and PUTSP return also when the string reaches  *)
(* address 0xFFFF, and PC + offset9, PC + offset11 and BaseR + offset6     *)
(* are taken modulo 65536.                                                 *)
C16_AddressesWrap ==
    [][/\ ((/\ proc = "fetch"
            /\ proc' \in {"exec", "panic"}
            /\ registers[R_PC] = 65535)
             => (proc' = "exec" /\ registers'[R_PC] = 0))
       /\ ((/\ proc = "exec"
            /\ OpcodeOf(instr) = 15
            /\ instr % 256 \in {34, 36})
             => proc' = "fetch")
       /\ ((proc = "exec" /\ OpcodeOf(instr) = 14)
             => registers'[DrOf(instr)] =
                  (registers[R_PC] + Signed9(instr)) % 65536)
       /\ ((proc = "exec" /\ OpcodeOf(instr) = 4 /\ (instr \div 2048) % 2 = 1)
             => registers'[R_PC] =
                  (registers[R_PC] + Signed11(instr)) % 65536)
       /\ ((proc = "exec" /\ OpcodeOf(instr) = 6)
             => registers'[DrOf(instr)] =
                  Mem(memory,
                      (registers[Sr1Of(instr)] + Signed6(instr)) % 65536))
       /\ ((proc = "exec" /\ OpcodeOf(instr) = 7)
             => Mem(memory',
                    (registers[Sr1Of(instr)] + Signed6(instr)) % 65536)
                  = registers[DrOf(instr)])]_vars

(* C17: AND sets DR to SR1 & SR2 (register mode) or to SR1 & the          *)
(* sign-extended imm5 (immediate mode) and leaves COND as it was before    *)
(* the instruction, also when the result is 0 or has bit 15 set.           *)
C17_AndKeepsCond ==
    [][(proc = "exec" /\ OpcodeOf(instr) = 5)
        => /\ proc' = "fetch"
           /\ registers'[DrOf(instr)] =
                BitAnd(registers[Sr1Of(instr)],
                       IF (instr \div 32) % 2 = 1
                       THEN Signed5(instr) % 65536
                       ELSE registers[Sr2Of(instr)])
           /\ registers'[R_COND] = registers[R_COND]]_vars

\* AND R0,R1,R1 has left 0xFFFF in R0 and COND is still Positive
C17_Witness ==
    /\ Returned
    /\ instr = 20545
    /\ registers[0] = 65535
    /\ registers[R_COND] = 1

\* a fetch at the status address: one read of KBSR
FetchAtKbsr ==
    /\ proc = "fetch"
    /\ proc' \in {"exec", "panic"}
    /\ registers[R_PC] = MR_KBSR

\* an LDI whose pointer cell is not KBSR and holds the address of KBSR: the
\* second read is the one read of KBSR
LdiThroughKbsr ==
    /\ proc = "exec"
    /\ OpcodeOf(instr) = 10
    /\ (registers[R_PC] + Signed9(instr)) % 65536 # MR_KBSR
    /\ Mem(memory, (registers[R_PC] + Signed9(instr)) % 65536) = MR_KBSR

(* C18: a read of the status address 0xFE00 polls the input for one byte:  *)
(* if a byte was there, that byte, widened to 16 bits, is stored at 0xFE02 *)
(* and bit 15 of the status word is set, and exactly that one byte is      *)
(* consumed; otherwise the status word becomes 0; the read returns the     *)
(* status word as just updated.                                            *)
C18_PollStoresPolledByte ==
    [][(FetchAtKbsr \/ LdiThroughKbsr)
        => /\ proc' # "panic"
           /\ (consumed' # <<>> =>
                 /\ Len(consumed') = 1
                 /\ Mem(memory', MR_KBDDR) = consumed'[1]
                 /\ Mem(memory', MR_KBSR) \div 32768 = 1)
           /\ (consumed' = <<>> => Mem(memory', MR_KBSR) = 0)
           /\ (FetchAtKbsr => instr' = Mem(memory', MR_KBSR))
           /\ (LdiThroughKbsr =>
                 registers'[DrOf(instr)] = Mem(memory', MR_KBSR))]_vars

\* an LD or an LDR whose effective address is the status address
LoadAtKbsr ==
    /\ proc = "exec"
    /\ \/ /\ OpcodeOf(instr) = 2
          /\ (registers[R_PC] + Signed9(instr)) % 65536 = MR_KBSR
       \/ /\ OpcodeOf(instr) = 6
          /\ (registers[Sr1Of(instr)] + Signed6(instr)) % 65536 = MR_KBSR

(* C19: every load whose effective address is the status address 0xFE00    *)
(* polls the input and refreshes the mapped words before the value is      *)
(* returned, whichever instruction performs it: the instruction fetch and  *)
(* the reads of LDI, and LD and LDR too.  A load that finds a byte         *)
(* consumes input and returns the status word with bit 15 set; one that    *)
(* finds none returns 0.                                                   *)
C19_EveryLoadPolls ==
    [][/\ ((FetchAtKbsr /\ proc' = "exec") =>
             /\ instr' = Mem(memory', MR_KBSR)
             /\ instr' = IF consumed' # <<>> /\ consumed'[1] # 0
                         THEN 32768 ELSE 0)
       /\ ((LdiThroughKbsr /\ proc' = "fetch") =>
             /\ registers'[DrOf(instr)] = Mem(memory', MR_KBSR)
             /\ registers'[DrOf(instr)] =
                  IF consumed' # <<>> /\ consumed'[1] # 0
                  THEN 32768 ELSE 0)
       /\ ((LoadAtKbsr /\ proc' = "fetch") =>
             /\ registers'[DrOf(instr)] = Mem(memory', MR_KBSR)
             /\ consumed' # <<>>
             /\ registers'[DrOf(instr)] =
                  IF consumed'[1] # 0 THEN 32768 ELSE 0)]_vars

(* C20: the terminal mode is scoped around every trap: whatever the        *)
(* 8-bit vector and whatever the outcome of the TRAP instruction, the      *)
(* state after it has canonical mode and echo restored.                    *)
C20_TrapRestoresTerminal ==
    [][(proc = "exec" /\ OpcodeOf(instr) = 15) => canon_echo']_vars

(* C21: if the load of any image named on the command line fails, the     *)
(* process ends with a non-zero status and the loop never starts; the loop *)
(* starts only after every image was loaded successfully, and the process  *)
(* ends with status zero only after the loop reached Halted.               *)
C21_LoadFailureStopsRun ==
    [][/\ ((/\ proc \in {"start", "loading"}
            /\ proc' \in {"loading", "exit1"}
            /\ (~image'.exists \/ Len(image'.bytes) < 2))
             => (proc' = "exit1" /\ steps' = 0))
       /\ (proc \in {"exit1", "exit2"} => FALSE)
       /\ ((proc \notin {"fetch", "exec"} /\ proc' = "fetch")
             => (proc = "loading" /\ load_result = "ok"))
       /\ (steps' # steps => proc = "fetch")
       /\ ((proc # "done" /\ proc' = "done")
             => (proc = "fetch" /\ ~running))]_vars

\* the second image of the command line failed to load after the first was
\* loaded: the process has ended with status 1 and no cycle has run
C21_Witness ==
    /\ proc = "exit1"
    /\ load_result = "err"
    /\ memory # <<>>
    /\ steps = 0

\* the COND value the cycle completed before has left: the flag of its
\* destination register if it is flag-setting, otherwise the COND its handler
\* started with; Zero when no cycle was completed before
CondLeft ==
    IF steps < 2 THEN 2
    ELSE IF IsFlagSetting(last.instr)
    THEN FlagOfValue(registers[DestOf(last.instr)])
    ELSE last.regs[R_COND]

(* C22: instruction effects are sequential in fetch order: a BR executed   *)
(* in cycle N+1 decides with the COND value the instruction of cycle N     *)
(* left, the value that instruction set if it is flag-setting and the      *)
(* value it inherited otherwise.                                           *)
C22_BranchUsesLatestCond ==
    [][(proc = "exec" /\ OpcodeOf(instr) = 0)
        => /\ registers[R_COND] = CondLeft
           /\ registers'[R_PC] =
                IF BrTaken(instr, CondLeft)
                THEN (registers[R_PC] + Signed9(instr)) % 65536
                ELSE registers[R_PC]]_vars

\* BRn #1 in the second cycle was taken: the NOT before it had set Negative
C22_Witness ==
    /\ Returned
    /\ steps = 2
    /\ instr = 2049
    /\ registers[R_COND] = 4
    /\ registers[R_PC] = 12291

\* an image whose payload lies within the address space, and the addresses
\* its payload covers
Fits(f) ==
    /\ f.exists
    /\ Len(f.bytes) >= 2
    /\ OriginOf(f) + PayloadWords(f) <= 65536

Covers(f, a) == a - OriginOf(f) \in 0..(PayloadWords(f) - 1)

CoveredBy(f) == {OriginOf(f) + i : i \in 0..(PayloadWords(f) - 1)}

(* C23: images are loaded one after another into the same memory: after   *)
(* the load of image A and then of image B, every address B covers holds   *)
(* B's word, every address A covers and B does not holds A's word, every   *)
(* other address is unchanged, and the load of B succeeds whether or not   *)
(* it overlaps A.                                                          *)
C23_LaterLoadOverlays ==
    [][(/\ proc = "loading"
        /\ load_result = "ok"
        /\ Fits(image)
        /\ Fits(image'))
        => /\ load_result' = "ok"
           /\ proc' = "loading"
           /\ \A a \in (DOMAIN memory) \cup (DOMAIN memory')
                       \cup CoveredBy(image) \cup CoveredBy(image') :
                Mem(memory', a) =
                  IF Covers(image', a)
                  THEN PayloadWord(image', a - OriginOf(image'))
                  ELSE IF Covers(image, a)
                  THEN PayloadWord(image, a - OriginOf(image))
                  ELSE Mem(memory, a)]_vars

\* a one-word image was loaded over the second word of a two-word image
C23_Witness ==
    /\ proc = "loading"
    /\ load_result = "ok"
    /\ image = ImageFile(PC_START + 1, <<1>>, <<>>)
    /\ Mem(memory, PC_START) = 13330
    /\ Mem(memory, PC_START + 1) = 1
    /\ Mem(memory, PC_START + 2) = 0

\* the packed string at address a: of each word the low byte and then the
\* high byte, up to the first zero byte in either position (at most n words)
RECURSIVE PackedString(_, _, _)
PackedString(m, a, n) ==
    IF n = 0 THEN <<>>
    ELSE LET lo == Mem(m, a) % 256
             hi == Mem(m, a) \div 256
         IN  IF lo = 0 THEN <<>>
             ELSE IF hi = 0 THEN <<lo>>
             ELSE <<lo, hi>> \o PackedString(m, (a + 1) % 65536, n - 1)

(* C24: PUTSP writes the packed string at address R0, of each word the low *)
(* byte and then the high byte, and stops at the first zero byte in either *)
(* position: no zero byte and no character after the first zero byte is    *)
(* written.                                                                *)
C24_PutspStopsAtZeroByte ==
    [][(/\ proc = "exec"
        /\ OpcodeOf(instr) = 15
        /\ instr % 256 = 36
        /\ proc' = "fetch")
        => output' = PackedString(memory, registers[0], 65536)]_vars

(* C25: BR adds the sign-extended 9-bit offset to PC exactly when a        *)
(* condition bit of the word that is set (n, z, p) names the current COND  *)
(* (Negative, Zero, Positive), and leaves PC alone otherwise: never taken  *)
(* with n = z = p = 0, always taken with n = z = p = 1. BR changes no      *)
(* other register and no memory word.                                      *)
C25_BranchOnCond ==
    [][(proc = "exec" /\ OpcodeOf(instr) = 0)
        => LET target == (registers[R_PC] + Signed9(instr)) % 65536
               nzp == (instr \div 512) % 8
           IN  /\ proc' = "fetch"
               /\ registers'[R_PC] =
                    IF BrTaken(instr, registers[R_COND])
                    THEN target ELSE registers[R_PC]
               /\ (nzp = 0 => registers'[R_PC] = registers[R_PC])
               /\ (nzp = 7 => registers'[R_PC] = target)
               /\ \A r \in (0..7) \cup {R_COND} : registers'[r] = registers[r]
               /\ memory' = memory
               /\ running' = running]_vars

\* BRnzp #-1 as the first instruction was taken: PC is back at the branch
C25_Witness ==
    /\ Returned
    /\ steps = 1
    /\ instr = 4095
    /\ registers[R_PC] = PC_START
    /\ registers[R_COND] = 2

EffectiveAddress(i) ==
    LET t9 == (registers[R_PC] + Signed9(i)) % 65536
    IN  CASE OpcodeOf(i) \in {2, 3} -> t9
          [] OpcodeOf(i) \in {6, 7} ->
               (registers[Sr1Of(i)] + Signed6(i)) % 65536
          [] OpcodeOf(i) \in {10, 11} -> Mem(memory, t9)
          [] OTHER -> 0

(* C27: addresses other than the status address 0xFE00 are ordinary        *)
(* storage.  A read of such an address (the fetch, each of the two reads   *)
(* of LDI, LD, LDR) returns the stored word, consumes no input and changes *)
(* no memory word, the data address 0xFE02 included; a write (each word of *)
(* an image load, ST, STI, STR) stores the value at its address and        *)
(* changes no other word, the two mapped addresses included.               *)
C27_OrdinaryStorage ==
    [][/\ ((/\ proc = "fetch"
             /\ proc' \in {"exec", "panic"}
             /\ registers[R_PC] # MR_KBSR)
            => /\ instr' = Mem(memory, registers[R_PC])
               /\ consumed' = <<>>
               /\ memory' = memory)
       /\ ((/\ proc = "exec"
             /\ OpcodeOf(instr) = 10
             /\ (registers[R_PC] + Signed9(instr)) % 65536 # MR_KBSR
             /\ EffectiveAddress(instr) # MR_KBSR)
            => /\ proc' = "fetch"
               /\ registers'[DrOf(instr)] =
                    Mem(memory, EffectiveAddress(instr))
               /\ consumed' = <<>>
               /\ memory' = memory)
       /\ ((/\ proc = "exec"
             /\ OpcodeOf(instr) \in {2, 6}
             /\ EffectiveAddress(instr) # MR_KBSR)
            => /\ proc' = "fetch"
               /\ registers'[DrOf(instr)] =
                    Mem(memory, EffectiveAddress(instr))
               /\ consumed' = <<>>
               /\ memory' = memory)
       /\ ((proc = "exec" /\ OpcodeOf(instr) \in {3, 7, 11})
            => /\ proc' = "fetch"
               /\ \A a \in (DOMAIN memory) \cup (DOMAIN memory')
                           \cup {MR_KBSR, MR_KBDDR, EffectiveAddress(instr)} :
                    Mem(memory', a) =
                      IF a = EffectiveAddress(instr)
                      THEN registers[DrOf(instr)]
                      ELSE Mem(memory, a))
       /\ ((proc = "start" /\ proc' = "loading" /\ Fits(image'))
            => \A a \in (DOMAIN memory) \cup (DOMAIN memory')
                        \cup {MR_KBSR, MR_KBDDR} \cup CoveredBy(image') :
                 Mem(memory', a) =
                   IF Covers(image', a)
                   THEN PayloadWord(image', a - OriginOf(image'))
                   ELSE Mem(memory, a))]_vars

\* LDI R1,#1 read the data address 0xFE02 through its pointer after the LDI
\* before it had polled a byte: R1 is the stored word, the status word still
\* says ready, no input was consumed
C27_Witness ==
    /\ Returned
    /\ steps = 2
    /\ instr = 41473
    /\ Mem(memory, PC_START + 3) = MR_KBDDR
    /\ Mem(memory, MR_KBSR) = 32768
    /\ Mem(memory, MR_KBDDR) = 65
    /\ registers[1] = 65
    /\ consumed = <<>>

\* the string at address a: the low byte of each word up to, not including,
\* the first zero word (at most n words)
RECURSIVE PutsString(_, _, _)
PutsString(m, a, n) ==
    IF n = 0 \/ Mem(m, a) = 0 THEN <<>>
    ELSE <<Mem(m, a) % 256>> \o PutsString(m, (a + 1) % 65536, n - 1)

(* C28: the output traps OUT, PUTS and PUTSP only produce output: they     *)
(* return with every register (R0 included), COND, running and every       *)
(* memory word unchanged; PUTS writes the low byte of each word from       *)
(* address R0 up to, not including, the first zero word.                   *)
C28_OutputTrapsOnlyPrint ==
    [][(/\ proc = "exec"
        /\ OpcodeOf(instr) = 15
        /\ instr % 256 \in {33, 34, 36})
        => /\ proc' = "fetch"
           /\ registers' = registers
           /\ running' = running
           /\ memory' = memory
           /\ (instr % 256 = 34 =>
                 output' = PutsString(memory, registers[0], 65536))]_vars

(* C29: each store instruction changes exactly one memory word, the one at *)
(* its effective address (ST: PC + offset9; STI: the word at PC + offset9; *)
(* STR: BaseR + offset6; modulo 65536), to the value of SR, and changes no *)
(* register: R0..R7, PC and COND are after the handler what they were      *)
(* before it.                                                              *)
C29_StoreWritesOneWord ==
    [][(proc = "exec" /\ OpcodeOf(instr) \in {3, 7, 11})
        => LET pc == registers[R_PC]
               ea == CASE OpcodeOf(instr) = 3 ->
                            (pc + Signed9(instr)) % 65536
                       [] OpcodeOf(instr) = 11 ->
                            Mem(memory, (pc + Signed9(instr)) % 65536)
                       [] OpcodeOf(instr) = 7 ->
                            (registers[Sr1Of(instr)] + Signed6(instr)) % 65536
           IN  /\ proc' = "fetch"
               /\ Mem(memory', ea) = registers[DrOf(instr)]
               /\ \A a \in ((DOMAIN memory) \cup (DOMAIN memory')) \ {ea} :
                    Mem(memory', a) = Mem(memory, a)
               /\ \A r \in DOMAIN registers : registers'[r] = registers[r]
               /\ running' = running
               /\ output' = <<>>
               /\ consumed' = <<>>]_vars

\* STI R1,#0 stored R1 = 0xFFFF through the pointer word at 0x3002, which
\* holds 0x3000: the first word of the program is overwritten, the pointer
\* word is not
C29_Witness ==
    /\ Returned
    /\ instr = 45568
    /\ registers[1] = 65535
    /\ Mem(memory, PC_START) = 65535
    /\ Mem(memory, PC_START + 2) = PC_START

\* the instruction executing now is an LD that follows an ST, or an LDR that
\* follows an STR, of the same effective address
LoadAfterStore ==
    /\ proc = "exec"
    /\ steps >= 2
    /\ \/ /\ OpcodeOf(last.instr) = 3
          /\ OpcodeOf(instr) = 2
          /\ (last.regs[R_PC] + Signed9(last.instr)) % 65536
               = (registers[R_PC] + Signed9(instr)) % 65536
       \/ /\ OpcodeOf(last.instr) = 7
          /\ OpcodeOf(instr) = 6
          /\ Sr1Of(last.instr) = Sr1Of(instr)
          /\ Signed6(last.instr) = Signed6(instr)

(* C30: a store followed by a load of the same effective address reads     *)
(* the stored value back: after ST SR and then LD DR of the same address,  *)
(* and after STR SR, BaseR, off and then LDR DR, BaseR, off, DR holds the  *)
(* value v that SR held at the store and COND is the flag of v; also when  *)
(* the address is one of the mapped addresses 0xFE00 and 0xFE02.           *)
C30_StoreLoadRoundTrip ==
    [][LoadAfterStore
        => LET v == last.regs[DrOf(last.instr)]
           IN  /\ proc' = "fetch"
               /\ registers'[DrOf(instr)] = v
               /\ registers'[R_COND] = FlagOfValue(v)]_vars

\* STR R1,R1,#2 and then LDR R2,R1,#2 with R1 = 0xFE00: the value stored at
\* the data address 0xFE02 is read back and no input was consumed
C30_Witness ==
    /\ Returned
    /\ instr = 25666
    /\ last.instr = 25666
    /\ registers[1] = MR_KBSR
    /\ registers[2] = MR_KBSR
    /\ registers[R_COND] = 4
    /\ Mem(memory, MR_KBDDR) = MR_KBSR
    /\ consumed = <<>>

(* C31: call and return pair up: when a JSR or JSRR was fetched at address *)
(* A and a RET (JMP with BaseR = R7) executes later with no instruction    *)
(* in between having written R7, PC after the RET is (A + 1) mod 65536.    *)
(* JMP sets PC to the value of its base register and changes nothing       *)
(* else.                                                                   *)
C31_CallReturnPairUp ==
    [][(proc = "exec" /\ OpcodeOf(instr) = 12)
        => /\ proc' = "fetch"
           /\ registers'[R_PC] = registers[Sr1Of(instr)]
           /\ \A r \in (0..7) \cup {R_COND} : registers'[r] = registers[r]
           /\ memory' = memory
           /\ running' = running
           /\ output' = <<>>
           /\ consumed' = <<>>
           /\ ((Sr1Of(instr) = 7 /\ link # -1)
                 => registers'[R_PC] = (link + 1) % 65536)]_vars

\* JSRR R1 fetched at 0x3001 called the code at 0x3003, whose RET has come
\* back to 0x3002
C31_Witness ==
    /\ Returned
    /\ instr = 49600
    /\ link = PC_START + 1
    /\ registers[1] = PC_START + 3
    /\ registers[7] = PC_START + 2
    /\ registers[R_PC] = PC_START + 2

====
